---- MODULE Spec2Model ----
(***************************************************************************)
(* Model of app.py, the Streamlit product recommender:                     *)
(*   - load_artifacts (lines 12-77): reading the artifact files and        *)
(*     decompressing the Annoy index into its canonical file;              *)
(*   - the catalog built at module level (lines 115-123) and get_title;    *)
(*   - the resolver: similar_by_map, similar_by_annoy, get_similar and the *)
(*     lazy load_annoy_index.                                              *)
(* Python positions are 0-based; TLA+ sequences are 1-based, so the item   *)
(* at Python position i of a list s is s[i + 1].                           *)
(***************************************************************************)
EXTENDS Integers, Sequences, FiniteSets, TLC

VARIABLES
    files,          \* the artifact files of the directory that are only read
    ann_file,       \* the canonical index file annoy_index_small.ann
    ann_file0,      \* ann_file as it was before any process started
    pc,             \* per process: position inside load_artifacts
    artifacts,      \* per process: the dict load_artifacts builds
    f_pos,          \* per process: chunks shutil.copyfileobj has given to f_out.write
    f_buf,          \* per process: how many of them f_out still holds in its buffer
    seen_ann,       \* per process: whether ann_file existed when it started
    log,            \* ann_file at the end of each finished load, in order
    stage,          \* module-level position of the app: "loaded" or "ready"
    product_meta,   \* the catalog table (a DataFrame)
    product_ids,    \* list of the ids, in row order
    prod_to_idx,    \* dict id -> ordinal
    similarity_map, \* art.get("similarity_map")
    annoy_path,     \* art.get("annoy_path")
    svd_model,      \* art.get("svd_model")
    ann_env,        \* what the outside holds: is annoy importable, does the file load
    annoy_index,    \* the global _annoy_index
    title_call,     \* the last get_title call and what it returned
    call            \* the last get_similar call and what it did

loadVars == <<files, ann_file, ann_file0, pc, artifacts, f_pos, f_buf, seen_ann, log>>
appVars == <<stage, product_meta, product_ids, prod_to_idx, similarity_map,
             annoy_path, svd_model, ann_env, annoy_index, title_call, call>>
vars == <<files, ann_file, ann_file0, pc, artifacts, f_pos, f_buf, seen_ann, log,
          stage, product_meta, product_ids, prod_to_idx, similarity_map,
          annoy_path, svd_model, ann_env, annoy_index, title_call, call>>

(***************************************************************************)
(* Bounds of the model.                                                    *)
(***************************************************************************)
MaxRows == 2        \* rows of a catalog table
MaxItems == 3       \* items of the catalog the resolver runs on
MaxK == 2           \* largest k asked of get_similar
MaxList == 2        \* longest neighbour list stored in the similarity map
NumChunks == 2      \* chunks of the decompressed index
NumProcs == 2       \* processes started on the same directory

Min(a, b) == IF a < b THEN a ELSE b
Max(a, b) == IF a > b THEN a ELSE b

(***************************************************************************)
(* Python values.  A value carries its type, so that "1" and 1 differ and  *)
(* str() is a real conversion.                                             *)
(***************************************************************************)
PyStr(s) == [t |-> "str", s |-> s, n |-> 0]
PyInt(i) == [t |-> "int", s |-> "", n |-> i]
PyNaN == [t |-> "nan", s |-> "", n |-> 0]

DigitStr(d) ==
    CASE d = 0 -> "0" [] d = 1 -> "1" [] d = 2 -> "2" [] d = 3 -> "3"
      [] d = 4 -> "4" [] d = 5 -> "5" [] d = 6 -> "6" [] d = 7 -> "7"
      [] d = 8 -> "8" [] d = 9 -> "9"

RECURSIVE NatStr(_)
NatStr(i) == IF i < 10 THEN DigitStr(i) ELSE NatStr(i \div 10) \o DigitStr(i % 10)

IntStr(i) == IF i < 0 THEN "-" \o NatStr(0 - i) ELSE NatStr(i)

\* str(x), and the element-wise astype(str)
str(x) ==
    CASE x.t = "str" -> x
      [] x.t = "int" -> PyStr(IntStr(x.n))
      [] x.t = "nan" -> PyStr("nan")

AsTypeStr(col) == [i \in 1..Len(col) |-> str(col[i])]

\* s[:k] of a Python list
SliceTo(s, k) ==
    IF k >= 0 THEN SubSeq(s, 1, Min(k, Len(s)))
    ELSE SubSeq(s, 1, Max(Len(s) + k, 0))

(***************************************************************************)
(* The catalog: lines 115-127.                                             *)
(***************************************************************************)
\* product_meta with the columns lines 116-121 ensure
EnsureColumns(pm) ==
    LET pm1 == IF "product_id" \notin pm.columns
               THEN [pm EXCEPT !.columns = @ \cup {"product_id"},
                               !.product_id = AsTypeStr(pm.index)]
               ELSE pm
        pm2 == IF "title" \notin pm1.columns
               THEN [pm1 EXCEPT !.columns = @ \cup {"title"},
                                !.title = AsTypeStr(pm1.product_id)]
               ELSE pm1
    IN  [pm2 EXCEPT !.product_id = AsTypeStr(pm2.product_id)]

EmptyDict == [x \in {} |-> 0]

DictSet(d, key, v) == [x \in (DOMAIN d) \cup {key} |-> IF x = key THEN v ELSE d[x]]

RECURSIVE EnumerateFirstWins(_, _, _)
EnumerateFirstWins(ids, i, d) ==
    IF i > Len(ids) THEN d
    ELSE EnumerateFirstWins(ids, i + 1,
             IF ids[i] \in DOMAIN d THEN d ELSE DictSet(d, ids[i], i - 1))

\* {p: i for i, p in enumerate(ids)}, from position i on, added to d
RECURSIVE Enumerate(_, _, _)
Enumerate(ids, i, d) ==
    IF i > Len(ids) THEN d
    ELSE Enumerate(ids, i + 1, DictSet(d, ids[i], i - 1))

ProdToIdx(ids) == Enumerate(ids, 1, EmptyDict)

\* the rows product_meta.loc[product_meta['product_id'] == str(pid)] selects
MatchingRows(pm, pid) == {i \in 1..Len(pm.product_id) : pm.product_id[i] = str(pid)}

GetTitleLast(pm, pid) ==
    LET row == MatchingRows(pm, pid)
    IN  IF row # {} THEN pm.title[CHOOSE i \in row : \A j \in row : j <= i]
        ELSE str(pid)

\* get_title: row['title'].iloc[0] if not row.empty else str(pid)
GetTitle(pm, pid) ==
    LET row == MatchingRows(pm, pid)
    IN  IF row # {} THEN pm.title[CHOOSE i \in row : \A j \in row : i <= j]
        ELSE str(pid)

(***************************************************************************)
(* load_artifacts: lines 12-77.  A directory is the state of its files.    *)
(* A pickle file is absent, holds some object, or is corrupt (joblib.load  *)
(* raises).  The compressed index decompresses to the chunks 1..NumChunks; *)
(* gz.good is how many chunks f_in.read returns before the stream ends or  *)
(* fails, and gz.intact says that it ends without an error.  A stream that *)
(* is not intact fails in the read after chunk gz.good: at once, in the    *)
(* middle of the data, or, with good = NumChunks, in the trailer that      *)
(* follows the last chunk.  Every chunk but the last has the full length   *)
(* copyfileobj asks for; gz.short_last says that the last one is shorter   *)
(* (a read that meets a bad trailer returns no short chunk, so the chunks  *)
(* of a failing stream are all full).                                      *)
(*                                                                         *)
(* open(ann_file, "wb") gives a buffered writer whose buffer has the block *)
(* size the filesystem reports (st_blksize), files.blksize.  Lengths are   *)
(* counted in a unit of half a copyfileobj chunk: only their order         *)
(* matters, to decide whether a chunk fits the buffer.                     *)
(***************************************************************************)
Procs == 1..NumProcs

None == "None"
AnnPathStr == "annoy_index_small.ann"

FullContent == [i \in 1..NumChunks |-> i]

\* length of a chunk copyfileobj reads in full, and of a short last chunk
ChunkLen == 2
ShortLen == 1

\* buffer sizes of f_out: from one that holds a short chunk only to one
\* that holds the whole content
BufSizes == 1..(NumChunks * ChunkLen)

NoFile == [exists |-> FALSE, data |-> <<>>]
File(d) == [exists |-> TRUE, data |-> d]

PickleStates == {"absent", "ok", "corrupt"}

Dirs ==
    [pm_joblib : {"absent", "frame", "dictlike", "other", "corrupt"},
     pm_pkl    : PickleStates,
     sm        : PickleStates,
     tfidf     : PickleStates,
     svd       : {"absent", "model", "dict_svd", "dict_other", "corrupt"},
     gz        : {[exists |-> FALSE, good |-> 0, intact |-> FALSE, short_last |-> FALSE]}
                   \cup {[exists |-> TRUE, good |-> NumChunks, intact |-> TRUE,
                           short_last |-> s] : s \in BOOLEAN}
                   \cup {[exists |-> TRUE, good |-> g, intact |-> FALSE,
                           short_last |-> FALSE] : g \in 0..NumChunks},
     blksize   : BufSizes]

\* contents the canonical file can have before any process starts
AnnFiles0 == {NoFile} \cup {File(SubSeq(FullContent, 1, n)) : n \in 0..NumChunks}

\* lines 17-40
LoadProductMeta(f) ==
    IF f.pm_joblib # "absent"
    THEN IF f.pm_joblib \in {"frame", "dictlike"} THEN "DataFrame" ELSE None
    ELSE IF f.pm_pkl # "absent"
         THEN IF f.pm_pkl = "ok" THEN "DataFrame" ELSE None
         ELSE None

\* joblib.load(path) outside any try block: lines 44 and 48
JoblibLoadRaises(state) == state = "corrupt"

\* joblib.load(path) if path.exists() else None, when it does not raise
LoadOptional(state, what) == IF state = "ok" THEN what ELSE None

\* lines 50-63
LoadSvd(f) ==
    CASE f.svd = "absent"     -> None
      [] f.svd = "model"      -> "model"
      [] f.svd = "dict_svd"   -> "model"
      [] f.svd = "dict_other" -> "dict"
      [] f.svd = "corrupt"    -> None

Unset == "<unset>"

EmptyArtifacts ==
    [product_meta |-> Unset, similarity_map |-> Unset, tfidf |-> Unset,
     svd_model |-> Unset, annoy_decompressed |-> Unset, annoy_path |-> Unset]

\* a chunk written to the file at the writer's own offset pos; a gap left
\* by another writer's truncation reads as zeros
WriteAt(data, pos, chunk) ==
    [i \in 1..Max(Len(data), pos + 1) |->
        IF i = pos + 1 THEN chunk ELSE IF i <= Len(data) THEN data[i] ELSE 0]

\* length of chunk number c
ChunkLenOf(gz, c) == IF gz.short_last /\ c = NumChunks THEN ShortLen ELSE ChunkLen

\* what the buffer of f_out holds: the last held of the pos chunks given to
\* f_out.write
RECURSIVE BufferedLen(_, _, _)
BufferedLen(gz, pos, held) ==
    IF held = 0 THEN 0 ELSE ChunkLenOf(gz, pos) + BufferedLen(gz, pos - 1, held - 1)

\* the buffer of f_out written to the file, at the offset of its first chunk
RECURSIVE FlushBuffer(_, _, _)
FlushBuffer(data, pos, held) ==
    IF held = 0 THEN data
    ELSE WriteAt(FlushBuffer(data, pos - 1, held - 1), pos - 1, FullContent[pos])

\* whether f_out.write of chunk number pos + 1 only fills the buffer: the
\* chunk is not longer than the room left in it
StaysInBuffer(f, pos, held) ==
    ChunkLenOf(f.gz, pos + 1) <= f.blksize - BufferedLen(f.gz, pos, held)

\* f_out.write of chunk number pos + 1: a chunk that fits the room left is
\* added to the buffer; otherwise the buffer is written to the file first,
\* and then the chunk is written to the file too when it is longer than the
\* whole buffer, and kept in the buffer when it is not
BufferedWrite(f, data, pos, held) ==
    IF StaysInBuffer(f, pos, held)
    THEN [data |-> data, held |-> held + 1]
    ELSE IF ChunkLenOf(f.gz, pos + 1) > f.blksize
         THEN [data |-> WriteAt(FlushBuffer(data, pos, held), pos, FullContent[pos + 1]),
               held |-> 0]
         ELSE [data |-> FlushBuffer(data, pos, held), held |-> 1]

\* lines 14-63: the objects are read; an unguarded joblib.load that raises
\* ends load_artifacts with the exception
LoadObjects(p) ==
    /\ pc[p] = "idle"
    /\ seen_ann' = [seen_ann EXCEPT ![p] = ann_file.exists]
    /\ IF JoblibLoadRaises(files.sm)
       THEN /\ pc' = [pc EXCEPT ![p] = "raised"]
            /\ artifacts' = [artifacts EXCEPT ![p] =
                   [EmptyArtifacts EXCEPT !.product_meta = LoadProductMeta(files)]]
       ELSE IF JoblibLoadRaises(files.tfidf)
       THEN /\ pc' = [pc EXCEPT ![p] = "raised"]
            /\ artifacts' = [artifacts EXCEPT ![p] =
                   [EmptyArtifacts EXCEPT !.product_meta = LoadProductMeta(files),
                                          !.similarity_map = LoadOptional(files.sm, "map")]]
       ELSE /\ pc' = [pc EXCEPT ![p] = "check"]
            /\ artifacts' = [artifacts EXCEPT ![p] =
                   [EmptyArtifacts EXCEPT !.product_meta = LoadProductMeta(files),
                                          !.similarity_map = LoadOptional(files.sm, "map"),
                                          !.tfidf = LoadOptional(files.tfidf, "tfidf"),
                                          !.svd_model = LoadSvd(files)]]
    /\ UNCHANGED <<files, ann_file, ann_file0, f_pos, f_buf, log>>
    /\ UNCHANGED appVars

NeedsDecompressAlways(gz, ann) == gz.exists

\* line 68: ann_gz.exists() and not ann_file.exists()
NeedsDecompress(gz, ann) == gz.exists /\ ~ann.exists

CheckAnn(p) ==
    /\ pc[p] = "check"
    /\ pc' = [pc EXCEPT ![p] = IF NeedsDecompress(files.gz, ann_file) THEN "open" ELSE "path"]
    /\ UNCHANGED <<files, ann_file, ann_file0, artifacts, f_pos, f_buf, seen_ann, log>>
    /\ UNCHANGED appVars

\* line 70: gzip.open(ann_gz, "rb") and open(ann_file, "wb"), which creates
\* the file or truncates it
OpenFiles(p) ==
    /\ pc[p] = "open"
    /\ ann_file' = File(<<>>)
    /\ f_pos' = [f_pos EXCEPT ![p] = 0]
    /\ f_buf' = [f_buf EXCEPT ![p] = 0]
    /\ pc' = [pc EXCEPT ![p] = "copy"]
    /\ UNCHANGED <<files, ann_file0, artifacts, seen_ann, log>>
    /\ UNCHANGED appVars

\* line 71: shutil.copyfileobj reads one more chunk and gives it to
\* f_out.write
CopyChunk(p) ==
    /\ pc[p] = "copy"
    /\ f_pos[p] < files.gz.good
    /\ LET w == BufferedWrite(files, ann_file.data, f_pos[p], f_buf[p])
       IN  /\ ann_file' = File(w.data)
           /\ f_buf' = [f_buf EXCEPT ![p] = w.held]
    /\ f_pos' = [f_pos EXCEPT ![p] = @ + 1]
    /\ UNCHANGED <<files, ann_file0, pc, artifacts, seen_ann, log>>
    /\ UNCHANGED appVars

\* lines 71-72: end of the stream; leaving the with block closes both
\* files, and closing f_out writes what its buffer holds
CopyDone(p) ==
    /\ pc[p] = "copy"
    /\ f_pos[p] = files.gz.good
    /\ files.gz.intact
    /\ ann_file' = File(FlushBuffer(ann_file.data, f_pos[p], f_buf[p]))
    /\ f_buf' = [f_buf EXCEPT ![p] = 0]
    /\ artifacts' = [artifacts EXCEPT ![p].annoy_decompressed = "True"]
    /\ pc' = [pc EXCEPT ![p] = "path"]
    /\ UNCHANGED <<files, ann_file0, f_pos, seen_ann, log>>
    /\ UNCHANGED appVars

\* lines 70-74: the read raises; the exception leaves the with block, which
\* closes f_out and so writes what its buffer holds, and is caught
CopyFails(p) ==
    /\ pc[p] = "copy"
    /\ f_pos[p] = files.gz.good
    /\ ~files.gz.intact
    /\ ann_file' = File(FlushBuffer(ann_file.data, f_pos[p], f_buf[p]))
    /\ f_buf' = [f_buf EXCEPT ![p] = 0]
    /\ artifacts' = [artifacts EXCEPT ![p].annoy_decompressed = "False"]
    /\ pc' = [pc EXCEPT ![p] = "path"]
    /\ UNCHANGED <<files, ann_file0, f_pos, seen_ann, log>>
    /\ UNCHANGED appVars

\* lines 75-77
SetPath(p) ==
    /\ pc[p] = "path"
    /\ artifacts' = [artifacts EXCEPT ![p].annoy_path =
                        IF ann_file.exists THEN AnnPathStr ELSE None]
    /\ pc' = [pc EXCEPT ![p] = "done"]
    /\ log' = Append(log, ann_file)
    /\ UNCHANGED <<files, ann_file, ann_file0, f_pos, f_buf, seen_ann>>
    /\ UNCHANGED appVars

(***************************************************************************)
(* The state of the app part while only load_artifacts is looked at.       *)
(***************************************************************************)
EmptyTable == [index |-> <<>>, columns |-> {}, product_id |-> <<>>, title |-> <<>>]
NoMap == [loaded |-> FALSE, dict |-> EmptyDict]
NoEnv == [importable |-> FALSE, loadable |-> FALSE]
NoIndex == [loaded |-> FALSE, dim |-> 0]
NoTitleCall == [called |-> FALSE, pid |-> PyStr(""), ret |-> PyStr("")]
NoCall == [called |-> FALSE, pid |-> PyStr(""), k |-> 0, raised |-> FALSE, ret |-> <<>>,
           ann_loaded |-> FALSE, queried |-> FALSE, asked |-> 0, reply |-> <<>>]

AppIdle ==
    /\ stage = "loaded"
    /\ product_meta = EmptyTable
    /\ product_ids = <<>>
    /\ prod_to_idx = EmptyDict
    /\ similarity_map = NoMap
    /\ annoy_path = None
    /\ svd_model = None
    /\ ann_env = NoEnv
    /\ annoy_index = NoIndex
    /\ title_call = NoTitleCall
    /\ call = NoCall

LoadIdle ==
    /\ ann_file0 = ann_file
    /\ pc = [p \in Procs |-> "idle"]
    /\ artifacts = [p \in Procs |-> EmptyArtifacts]
    /\ f_pos = [p \in Procs |-> 0]
    /\ f_buf = [p \in Procs |-> 0]
    /\ seen_ann = [p \in Procs |-> FALSE]
    /\ log = <<>>

\* the processes start one after the other: the next one when the one
\* before it has ended
InitSeq ==
    /\ files \in Dirs
    /\ ann_file \in AnnFiles0
    /\ LoadIdle
    /\ AppIdle

Ended(p) == pc[p] \in {"done", "raised"}

StartInTurn(p) ==
    /\ \A q \in Procs : q < p => Ended(q)
    /\ LoadObjects(p)

NextSeq ==
    \E p \in Procs :
        \/ StartInTurn(p)
        \/ CheckAnn(p)
        \/ OpenFiles(p)
        \/ CopyChunk(p)
        \/ CopyDone(p)
        \/ CopyFails(p)
        \/ SetPath(p)

SpecSeq == InitSeq /\ [][NextSeq]_vars

\* the processes start at any time
InitRace ==
    /\ files \in Dirs
    /\ ann_file \in AnnFiles0
    /\ LoadIdle
    /\ AppIdle

NextRace ==
    \E p \in Procs :
        \/ LoadObjects(p)
        \/ CheckAnn(p)
        \/ OpenFiles(p)
        \/ CopyChunk(p)
        \/ CopyDone(p)
        \/ CopyFails(p)
        \/ SetPath(p)

SpecRace == InitRace /\ [][NextRace]_vars

GzIntact == files.gz.exists /\ files.gz.intact

\* C5: per-artifact failure isolation: no load raises, and a load that is
\* done reports every corrupt optional artifact as null (annoy_path null
\* when the decompression failed) and every other artifact as loaded.
C5_FailureIsolation ==
    \A p \in Procs :
        /\ pc[p] # "raised"
        /\ pc[p] = "done" =>
            /\ artifacts[p].product_meta = LoadProductMeta(files)
            /\ artifacts[p].similarity_map = LoadOptional(files.sm, "map")
            /\ artifacts[p].tfidf = LoadOptional(files.tfidf, "tfidf")
            /\ artifacts[p].svd_model = LoadSvd(files)
            /\ artifacts[p].annoy_decompressed = "False" => artifacts[p].annoy_path = None

\* C7, as a state predicate: once a load has ended with the canonical file
\* present, every later load ends with the same file; and a load that found
\* the canonical file when it started does not fail on that account (the
\* only loads that fail are those of a corrupt similarity map or vectorizer).
C7_SameFileAfterEachRun ==
    /\ \A i \in 2..Len(log) : log[i - 1].exists => log[i] = log[i - 1]
    /\ \A p \in Procs :
         (seen_ann[p] /\ files.sm # "corrupt" /\ files.tfidf # "corrupt") => pc[p] # "raised"

\* C7, as a step property: no step of a load that found the canonical file
\* when it started changes that file.
C7_NoRewrite ==
    \A p \in Procs : (seen_ann'[p] /\ pc'[p] # pc[p]) => ann_file' = ann_file

\* C7: decompression idempotence: loads run in sequence over one directory
\* leave the canonical file of the first as it is, without failing and
\* without rewriting it.
C7_DecompressIdempotent == []C7_SameFileAfterEachRun /\ [][C7_NoRewrite]_vars

\* two loads have run in sequence from a directory with only the compressed
\* index; the second found the file the first wrote
C7_Witness ==
    /\ ~ann_file0.exists
    /\ GzIntact
    /\ Len(log) = 2
    /\ log[1] = File(FullContent)
    /\ log[2] = log[1]
    /\ pc[2] = "done"
    /\ seen_ann[2]
    /\ artifacts[1].annoy_decompressed = "True"
    /\ artifacts[2].annoy_decompressed = Unset

\* C8: decompression is safe to race: from a directory with only the
\* compressed index, no load fails, and no load that is done reports the
\* index (annoy_path not null) while the canonical file is not the complete
\* decompressed content.
C8_SafeToRace ==
    (~ann_file0.exists /\ GzIntact /\ files.sm # "corrupt" /\ files.tfidf # "corrupt") =>
        \A p \in Procs :
            /\ pc[p] # "raised"
            /\ (pc[p] = "done" /\ artifacts[p].annoy_path # None) =>
                   ann_file = File(FullContent)

(***************************************************************************)
(* The catalog at module level: lines 79-127.  The table load_artifacts    *)
(* returned is any DataFrame: its index labels, and the product_id and     *)
(* title columns when it has them.                                         *)
(***************************************************************************)
PidVals == {PyStr("A"), PyStr("B"), PyStr("1"), PyStr(""), PyInt(1)}
TitleVals == {PyStr("Red Shoe"), PyStr(""), PyNaN}
QueryPids == {PyStr("A"), PyStr("B"), PyStr("1"), PyStr(""), PyStr("Z"), PyInt(1)}

RangeIndex(n) == [i \in 1..n |-> PyInt(i - 1)]

\* tables of n rows: with a product_id column (the index is then never
\* read, and is the default one), or without it and with any index labels
Tables(n) ==
    LET titles == {[has |-> FALSE, col |-> <<>>]}
                    \cup {[has |-> TRUE, col |-> c] : c \in [1..n -> TitleVals]}
        withPid == {[index |-> RangeIndex(n),
                     columns |-> {"product_id"} \cup (IF t.has THEN {"title"} ELSE {}),
                     product_id |-> c, title |-> t.col] :
                        c \in [1..n -> PidVals], t \in titles}
        noPid == {[index |-> ix,
                   columns |-> IF t.has THEN {"title"} ELSE {},
                   product_id |-> <<>>, title |-> t.col] :
                        ix \in [1..n -> {PyInt(i) : i \in 0..(MaxRows - 1)}], t \in titles}
    IN  withPid \cup noPid

InitCatalog ==
    /\ stage = "loaded"
    /\ product_meta \in UNION {Tables(n) : n \in 0..MaxRows}
    /\ product_ids = <<>>
    /\ prod_to_idx = EmptyDict
    /\ similarity_map = NoMap
    /\ annoy_path = None
    /\ svd_model = None
    /\ ann_env = NoEnv
    /\ annoy_index = NoIndex
    /\ title_call = NoTitleCall
    /\ call = NoCall
    /\ files \in {d \in Dirs : d.pm_joblib = "frame" /\ d.pm_pkl = "absent" /\ d.sm = "absent"
                     /\ d.tfidf = "absent" /\ d.svd = "absent" /\ ~d.gz.exists
                     /\ d.blksize = ShortLen}
    /\ ann_file = NoFile
    /\ ann_file0 = NoFile
    /\ pc = [p \in Procs |-> "done"]
    /\ artifacts = [p \in Procs |-> EmptyArtifacts]
    /\ f_pos = [p \in Procs |-> 0]
    /\ f_buf = [p \in Procs |-> 0]
    /\ seen_ann = [p \in Procs |-> FALSE]
    /\ log = <<>>

\* lines 115-123
BuildCatalog ==
    /\ stage = "loaded"
    /\ product_meta' = EnsureColumns(product_meta)
    /\ product_ids' = product_meta'.product_id
    /\ prod_to_idx' = ProdToIdx(product_ids')
    /\ stage' = "ready"
    /\ UNCHANGED <<similarity_map, annoy_path, svd_model, ann_env, annoy_index, title_call, call>>
    /\ UNCHANGED loadVars

\* a call of get_title, lines 125-127
GetTitleCall(pid) ==
    /\ stage = "ready"
    /\ title_call' = [called |-> TRUE, pid |-> pid, ret |-> GetTitle(product_meta, pid)]
    /\ UNCHANGED <<stage, product_meta, product_ids, prod_to_idx, similarity_map,
                   annoy_path, svd_model, ann_env, annoy_index, call>>
    /\ UNCHANGED loadVars

NextCatalog ==
    \/ BuildCatalog
    \/ \E pid \in QueryPids : GetTitleCall(pid)

SpecCatalog == InitCatalog /\ [][NextCatalog]_vars

Rows == 1..Len(product_ids)

DistinctIds == \A i, j \in Rows : product_ids[i] = product_ids[j] => i = j

\* C9 as stated: after catalog construction prod_to_idx maps the id of every
\* row position to that position, for every loaded table.
C9_OrdinalBijection ==
    stage = "ready" =>
        /\ DOMAIN prod_to_idx = {product_ids[i] : i \in Rows}
        /\ \A i \in Rows : prod_to_idx[product_ids[i]] = i - 1

\* C9, amended: prod_to_idx is defined on exactly the catalog's ids and maps
\* each id to the last row position that holds it; it is the bijection onto
\* [0, N) whenever the ids are pairwise distinct.
C9_LastPositionOfId ==
    stage = "ready" =>
        /\ DOMAIN prod_to_idx = {product_ids[i] : i \in Rows}
        /\ \A i \in Rows :
             /\ prod_to_idx[product_ids[i]] + 1 \in Rows
             /\ product_ids[prod_to_idx[product_ids[i]] + 1] = product_ids[i]
             /\ \A j \in Rows : product_ids[j] = product_ids[i] => j - 1 <= prod_to_idx[product_ids[i]]
        /\ DistinctIds =>
             /\ \A i \in Rows : prod_to_idx[product_ids[i]] = i - 1
             /\ {prod_to_idx[x] : x \in DOMAIN prod_to_idx} = 0..(Len(product_ids) - 1)

\* a catalog of MaxRows distinct ids synthesized from the index labels
C9_Witness ==
    /\ stage = "ready"
    /\ Len(product_ids) = MaxRows
    /\ DistinctIds
    /\ product_ids = AsTypeStr(product_meta.index)
    /\ prod_to_idx[product_ids[MaxRows]] = MaxRows - 1

\* C10 as stated: get_title of a string id returns a non-empty string.
C10_TitleNonEmpty ==
    (title_call.called /\ title_call.pid.t = "str") =>
        (title_call.ret.t = "str" /\ title_call.ret.s # "")

\* C10, amended: get_title of a string id returns the stored title of the
\* first row that holds the id when there is one, and otherwise the id; the
\* result is a non-empty string unless that stored title is empty or missing,
\* or the id is absent and itself empty.
C10_TitleOrId ==
    (title_call.called /\ title_call.pid.t = "str") =>
        LET hits == {i \in Rows : product_ids[i] = title_call.pid}
            stored == {product_meta.title[i] : i \in {h \in hits : \A j \in hits : h <= j}}
        IN  /\ hits # {} => stored = {title_call.ret}
            /\ hits = {} => title_call.ret = title_call.pid
            /\ ( \/ (hits # {} /\ \E v \in stored : v.t = "str" /\ v.s # "")
                 \/ (hits = {} /\ title_call.pid.s # "") )
                 => (title_call.ret.t = "str" /\ title_call.ret.s # "")

\* get_title of an id two rows hold, with different titles
C10_Witness ==
    /\ title_call.called
    /\ title_call.pid = PyStr("A")
    /\ Cardinality({i \in Rows : product_ids[i] = PyStr("A")}) = 2
    /\ product_meta.title[1] = PyStr("Red Shoe")
    /\ product_meta.title[2] = PyStr("")
    /\ title_call.ret = PyStr("Red Shoe")

(***************************************************************************)
(* The resolver: lines 87-105 and 137-160.  An optional Python result is   *)
(* a record: none says it is None, val is the list otherwise.              *)
(***************************************************************************)
DefaultDim == 32

NoneResult == [none |-> TRUE, val |-> <<>>]
ListResult(l) == [none |-> FALSE, val |-> l]

\* dict.get(key, default)
DictGet(d, key, default) == IF key \in DOMAIN d THEN d[key] ELSE default

SimilarByMapOneMore(pid, k) ==
    IF ~similarity_map.loaded THEN NoneResult
    ELSE ListResult(SliceTo(DictGet(similarity_map.dict, str(pid), <<>>), k + 1))

\* similar_by_map, lines 137-141
SimilarByMap(pid, k) ==
    IF ~similarity_map.loaded THEN NoneResult
    ELSE ListResult(SliceTo(DictGet(similarity_map.dict, str(pid), <<>>), k))

\* load_annoy_index, lines 88-105: what it returns or raises, and the
\* global _annoy_index after it
LoadAnnoyIndex ==
    IF annoy_index.loaded
    THEN [raised |-> FALSE, ai |-> TRUE, index |-> annoy_index]
    ELSE IF annoy_path = None
    THEN [raised |-> FALSE, ai |-> FALSE, index |-> annoy_index]
    ELSE IF ~ann_env.importable
    THEN [raised |-> FALSE, ai |-> FALSE, index |-> annoy_index]
    ELSE IF ~ann_env.loadable
    THEN [raised |-> TRUE, ai |-> FALSE, index |-> annoy_index]
    ELSE [raised |-> FALSE, ai |-> TRUE,
          index |-> [loaded |-> TRUE,
                     dim |-> IF svd_model.has_n_components
                             THEN svd_model.n_components ELSE DefaultDim]]

\* [x for x in s if x != pid]
RECURSIVE ExcludeSelf(_, _)
ExcludeSelf(s, pid) ==
    IF s = <<>> THEN <<>>
    ELSE IF Head(s) # pid THEN <<Head(s)>> \o ExcludeSelf(Tail(s), pid)
         ELSE ExcludeSelf(Tail(s), pid)

NeighbourIdsTruncateFirst(nbrs, pid, k) ==
    ExcludeSelf(SliceTo([i \in 1..Len(nbrs) |-> product_ids[nbrs[i] + 1]], k), pid)

\* line 152: [product_ids[i] for i in nbrs if product_ids[i] != pid][:k]
NeighbourIds(nbrs, pid, k) ==
    SliceTo(ExcludeSelf([i \in 1..Len(nbrs) |-> product_ids[nbrs[i] + 1]], pid), k)

\* what ai.get_nns_by_item(idx, n) may return: at most n ordinals of the
\* index's items, no ordinal twice; the library decides which and in what
\* order.  For n < 0 nothing is known about the count.
AnnReplies(n) ==
    LET N == Len(product_ids)
        most == IF n < 0 THEN N ELSE Min(n, N)
    IN  {s \in UNION {[1..m -> 0..(N - 1)] : m \in 0..most} :
            \A i, j \in 1..Len(s) : s[i] = s[j] => i = j}

\* whether get_similar(pid, k) reaches line 150
ReachesQuery(pid, k) ==
    /\ SimilarByMap(pid, k).none
    /\ ~LoadAnnoyIndex.raised
    /\ LoadAnnoyIndex.ai
    /\ str(pid) \in DOMAIN prod_to_idx

\* get_similar(pid, k), lines 155-160, with the reply the index gives when
\* it is asked
GetSimilar(pid, k, reply) ==
    LET res == SimilarByMap(pid, k)
        ld == LoadAnnoyIndex
        base == [called |-> TRUE, pid |-> pid, k |-> k, raised |-> FALSE, ret |-> <<>>,
                 ann_loaded |-> FALSE, queried |-> FALSE, asked |-> 0, reply |-> <<>>]
    IN  IF ~res.none THEN [base EXCEPT !.ret = res.val]
        ELSE IF ld.raised THEN [base EXCEPT !.raised = TRUE, !.ann_loaded = TRUE]
        ELSE IF ~ld.ai THEN [base EXCEPT !.ann_loaded = TRUE]
        ELSE IF str(pid) \notin DOMAIN prod_to_idx THEN [base EXCEPT !.ann_loaded = TRUE]
        ELSE [base EXCEPT !.ann_loaded = TRUE, !.queried = TRUE, !.asked = k + 1,
                          !.reply = reply, !.ret = NeighbourIds(reply, pid, k)]

ItemIds == {PyStr("A"), PyStr("B"), PyStr("1")}
MapKeys == {PyStr("1")}
CallPids == {PyStr("A"), PyStr("1"), PyStr("Z"), PyInt(1)}
CallKs == (0 - 2)..MaxK

Lists(S, n) == UNION {[1..m -> S] : m \in 0..n}

Maps ==
    {NoMap, [loaded |-> TRUE, dict |-> EmptyDict]}
      \cup {[loaded |-> TRUE, dict |-> DictSet(EmptyDict, key, l)] :
               key \in MapKeys, l \in Lists(ItemIds, MaxList)}

NoSvd == [has_n_components |-> FALSE, n_components |-> 0]
SvdModels == {NoSvd, [has_n_components |-> TRUE, n_components |-> 16]}

\* the app after lines 79-123, for every catalog and similarity map, with
\* the index file absent, loadable or not, and annoy importable or not.  The
\* dimension hint is read only when the index is loaded, and varies there.
InitResolver ==
    /\ stage = "ready"
    /\ \E ids \in Lists(ItemIds, MaxItems) :
         /\ product_meta = EnsureColumns([index |-> RangeIndex(Len(ids)),
                                          columns |-> {"product_id"},
                                          product_id |-> ids, title |-> <<>>])
         /\ product_ids = product_meta.product_id
         /\ prod_to_idx = ProdToIdx(product_ids)
    /\ similarity_map \in Maps
    /\ \/ annoy_path = None /\ ann_env \in [importable : BOOLEAN, loadable : {FALSE}]
       \/ annoy_path = AnnPathStr /\ ann_env \in [importable : BOOLEAN, loadable : BOOLEAN]
    /\ IF ~similarity_map.loaded /\ annoy_path # None /\ ann_env.importable /\ ann_env.loadable
       THEN svd_model \in SvdModels
       ELSE svd_model = NoSvd
    /\ annoy_index = NoIndex
    /\ title_call = NoTitleCall
    /\ call = NoCall
    /\ files \in {d \in Dirs : d.pm_joblib = "frame" /\ d.pm_pkl = "absent" /\ d.sm = "absent"
                     /\ d.tfidf = "absent" /\ d.svd = "absent" /\ ~d.gz.exists
                     /\ d.blksize = ShortLen}
    /\ ann_file = NoFile
    /\ ann_file0 = NoFile
    /\ pc = [p \in Procs |-> "done"]
    /\ artifacts = [p \in Procs |-> EmptyArtifacts]
    /\ f_pos = [p \in Procs |-> 0]
    /\ f_buf = [p \in Procs |-> 0]
    /\ seen_ann = [p \in Procs |-> FALSE]
    /\ log = <<>>

\* a call of get_similar
GetSimilarCall(pid, k) ==
    /\ stage = "ready"
    /\ ~call.called
    /\ \E reply \in (IF ReachesQuery(pid, k) THEN AnnReplies(k + 1) ELSE {<<>>}) :
         call' = GetSimilar(pid, k, reply)
    /\ annoy_index' = IF SimilarByMap(pid, k).none THEN LoadAnnoyIndex.index ELSE annoy_index
    /\ UNCHANGED <<stage, product_meta, product_ids, prod_to_idx, similarity_map,
                   annoy_path, svd_model, ann_env, title_call>>
    /\ UNCHANGED loadVars

\* lines 202-221: the caller shows what get_similar returned; an exception
\* get_similar raised ends the run instead
ShowRecs ==
    /\ call.called
    /\ ~call.raised
    /\ call' = NoCall
    /\ UNCHANGED <<stage, product_meta, product_ids, prod_to_idx, similarity_map,
                   annoy_path, svd_model, ann_env, annoy_index, title_call>>
    /\ UNCHANGED loadVars

NextResolver ==
    \/ \E pid \in CallPids, k \in CallKs : GetSimilarCall(pid, k)
    \/ ShowRecs

SpecResolver == InitResolver /\ [][NextResolver]_vars

IndexAvailable ==
    annoy_index.loaded \/ (annoy_path # None /\ ann_env.importable /\ ann_env.loadable)

InCatalog(pid) == \E i \in Rows : product_ids[i] = pid

MapMiss(pid) == ~similarity_map.loaded \/ str(pid) \notin DOMAIN similarity_map.dict

\* C1: fallback to ANN on a map miss: a call for an id of the catalog with
\* no entry in the similarity map (no map loaded, or a loaded map without
\* the id) goes to the ANN index and returns the ANN-path result.  Stated
\* for k >= 0 and an index that can be loaded.
C1_FallbackOnMapMiss ==
    (call.called /\ call.k >= 0 /\ InCatalog(call.pid) /\ MapMiss(call.pid)
       /\ IndexAvailable) =>
        /\ call.ann_loaded
        /\ call.queried
        /\ call.ret = NeighbourIds(call.reply, call.pid, call.k)

\* C2: map path: a call with k >= 0 for an id with an entry in the loaded
\* map returns the first min(k, length) entries of the stored list, in
\* stored order, without loading or asking the ANN index; a stored list
\* without the id gives a result without it.
C2_MapPrefix ==
    (call.called /\ call.k >= 0 /\ similarity_map.loaded
       /\ str(call.pid) \in DOMAIN similarity_map.dict) =>
        LET stored == similarity_map.dict[str(call.pid)]
        IN  /\ ~call.raised
            /\ Len(call.ret) = Min(call.k, Len(stored))
            /\ \A i \in 1..Len(call.ret) : call.ret[i] = stored[i]
            /\ ~call.ann_loaded /\ ~call.queried /\ ~annoy_index.loaded
            /\ (\A i \in 1..Len(stored) : stored[i] # call.pid)
                 => \A i \in 1..Len(call.ret) : call.ret[i] # call.pid

\* a map answer cut to k, next to an index that could have been asked
C2_Witness ==
    /\ call.called
    /\ call.pid = PyInt(1)
    /\ call.k = 1
    /\ similarity_map.loaded
    /\ DictGet(similarity_map.dict, PyStr("1"), <<>>) = <<PyStr("B"), PyStr("A")>>
    /\ call.ret = <<PyStr("B")>>
    /\ product_ids = <<PyStr("A"), PyStr("1"), PyStr("B")>>
    /\ annoy_path # None /\ ann_env.importable /\ ann_env.loadable

\* C3: the ANN path excludes, then truncates: a call answered from the ANN
\* index asked it for k + 1 neighbours, and for k >= 0 its result is the
\* ids of the returned ordinals without any occurrence of the id, in the
\* returned order, cut to k: at most k ids, and fewer when fewer remain.
C3_ExcludeThenTruncate ==
    (call.called /\ call.queried) =>
        /\ call.asked = call.k + 1
        /\ ~call.raised
        /\ call.k >= 0 =>
            LET ids == [i \in 1..Len(call.reply) |-> product_ids[call.reply[i] + 1]]
                keep == {i \in 1..Len(ids) : ids[i] # call.pid}
                nth(j) == CHOOSE i \in keep : Cardinality({m \in keep : m < i}) = j - 1
            IN  /\ Len(call.reply) <= call.k + 1
                /\ Len(call.ret) = Min(call.k, Cardinality(keep))
                /\ Len(call.ret) <= call.k
                /\ \A j \in 1..Len(call.ret) : call.ret[j] = ids[nth(j)]
                /\ \A j \in 1..Len(call.ret) : call.ret[j] # call.pid

\* the index returns the id itself first and k more: all k others are kept
C3_Witness ==
    /\ call.called /\ call.queried
    /\ call.pid = PyStr("A")
    /\ call.k = 2
    /\ product_ids = <<PyStr("B"), PyStr("A"), PyStr("1")>>
    /\ call.reply = <<1, 0, 2>>
    /\ call.ret = <<PyStr("B"), PyStr("1")>>

\* C4: a call for an id absent from the catalog and from the similarity map
\* returns the empty sequence and does not raise, whatever artifacts exist.
\* Stated for k >= 0.
C4_AbsentIdEmpty ==
    (call.called /\ call.k >= 0 /\ str(call.pid) \notin DOMAIN prod_to_idx /\ MapMiss(call.pid)) =>
        (~call.raised /\ call.ret = <<>>)

\* C6: negative k is rejected: a call with k < 0 raises and returns no list.
C6_NegativeKRejected ==
    (call.called /\ call.k < 0) => call.raised

====
